---------------------------- MODULE Spec2Model ----------------------------
(* A model of the spam-detection notebook (spam_detect_app.ipynb):          *)
(* read_data, the Keras tokenizer and padding, the vocabulary, the          *)
(* embedding-matrix builder with its on-disk cache, and predict_spam.       *)
(*                                                                          *)
(* Four specifications share the module:                                    *)
(*   SpecRead  - read_data's loop over the lines of the input file;         *)
(*   SpecBuild - calls of build_embedding_matrix against one file system;   *)
(*   Spec      - the notebook's cells in order, then predict_spam calls;    *)
(*   SpecEval  - the dataset split, model.fit's passes over the batched     *)
(*               splits, the evaluation loop and its report.                *)
EXTENDS Integers, Sequences, FiniteSets, TLC

VARIABLES
    \* ---- read_data ----
    file_lines,     \* the lines of SMSSpamCollection parsed so far
    labels,         \* read_data's local list `labels`
    texts,          \* read_data's local list `texts`
    rd_status,      \* "reading" | "returned" | "ValueError"
    \* ---- the file system (the cache file) ----
    fs,             \* path -> matrix stored in the file, or NoFile
    \* ---- build_embedding_matrix calls ----
    call,           \* the last call: arguments, outcome, what it did
    \* ---- the notebook ----
    pc,             \* which cell has run
    corpus,         \* the global `texts` the tokenizer is fitted on
    text_sequences, \* padded training sequences
    max_seqlen,
    word2idx,       \* tokenizer.word_index (the same dict object)
    idx2word,
    vocab_size,
    E,              \* the embedding matrix of the notebook
    model,          \* the trained model (its weights)
    message,        \* argument of the last predict_spam call
    padded_sequence,\* the sequence the last predict_spam call fed the model
    result,         \* what the last predict_spam call returned
    repeated,       \* the last two predict_spam calls had the same message
    last_op,        \* the operation that made the last step
    \* ---- the dataset split, model.fit and the evaluation loop ----
    num_record,    \* number of records of `dataset` (one per sentence)
    ev_pc,          \* "off" | "fit" | "validate" | "evaluate" | "loop" |
                    \* "done" | "ValueError"
    epoch,          \* epochs of model.fit completed
    fed,            \* the last pass over a batched split: what it yielded
    used,           \* splits that fed the followed record in some pass
    dropped,        \* splits that left the followed record in a remainder
    eval_i,         \* batches of test_dataset the evaluation loop has taken
    labels_len,     \* len(labels) of the evaluation loop
    predictions_len,\* len(predictions) of the evaluation loop
    printed         \* what the report after the loop printed

readVars  == <<file_lines, labels, texts, rd_status>>
buildVars == <<call>>
nbVars    == <<pc, corpus, text_sequences, max_seqlen, word2idx, idx2word,
               vocab_size, E, model, message, padded_sequence, result, repeated,
               last_op>>
evVars    == <<num_record, ev_pc, epoch, fed, used, dropped, eval_i,
               labels_len, predictions_len, printed>>
vars      == <<readVars, fs, buildVars, nbVars, evVars>>

----------------------------------------------------------------------------
(* Bounds of the model *)

\* most records of the dataset
MaxRecords == 780
\* most tokens in a line of the input file
MaxLineLen == 3
\* most lines read from the input file
MaxLines == 2
\* most word tokens in a corpus (summed over its texts)
MaxCorpusTokens == 3
\* most word tokens in a corpus a vocabulary passed to the builder comes from
MaxVocabTokens == 2
\* most tokens in a message given to predict_spam
MaxMsgLen == 4
\* largest embedding_dim passed to build_embedding_matrix
MaxDim == 3
\* dimension of the pre-trained vectors (300 for glove-wiki-gigaword-300)
GloveDim == 2
\* largest weight a trained model may have
MaxWeight == 1

\* no file at a path, no matrix yet: a matrix has at least the row of "PAD"
NoFile == <<>>
NoMatrix == <<>>

----------------------------------------------------------------------------
(* Sequences *)

SeqsOfLen(S, n) == [1..n -> S]
SeqsUpTo(S, n) == UNION {SeqsOfLen(S, k) : k \in 0..n}

RECURSIVE SumSeq(_)
SumSeq(s) == IF s = <<>> THEN 0 ELSE Head(s) + SumSeq(Tail(s))

RECURSIVE Concat(_)
Concat(ss) == IF ss = <<>> THEN <<>> ELSE Head(ss) \o Concat(Tail(ss))

Count(x, s) == Cardinality({i \in 1..Len(s) : s[i] = x})
FirstPos(x, s) == CHOOSE i \in 1..Len(s) : s[i] = x /\ \A j \in 1..(i-1) : s[j] # x
Max(S) == CHOOSE m \in S : \A x \in S : x <= m
Zeros(n) == [i \in 1..n |-> 0]


----------------------------------------------------------------------------
(* read_data: the loop over the lines of the extracted file *)

\* A line is a sequence of tokens: the words "spam", "ham" and "free" (words
\* of one field are separated by single blanks) and the tab character.
TAB == "\t"
LineTokens == {"spam", "ham", "free", TAB}
Whitespace == {TAB}
Lines == SeqsUpTo(LineTokens, MaxLineLen)

\* str.strip(): leading and trailing whitespace removed
RECURSIVE LStrip(_)
LStrip(s) == IF s # <<>> /\ Head(s) \in Whitespace THEN LStrip(Tail(s)) ELSE s
RECURSIVE RStrip(_)
RStrip(s) ==
    IF s # <<>> /\ s[Len(s)] \in Whitespace THEN RStrip(SubSeq(s, 1, Len(s) - 1)) ELSE s
Strip(s) == RStrip(LStrip(s))

\* str.split(sep): the fields between the separators; one field (possibly
\* empty) when there is no separator
RECURSIVE Split(_, _)
Split(s, sep) ==
    IF \A i \in 1..Len(s) : s[i] # sep
    THEN <<s>>
    ELSE LET i == FirstPos(sep, s)
         IN <<SubSeq(s, 1, i - 1)>> \o Split(SubSeq(s, i + 1, Len(s)), sep)

\* 1 if label == 'spam' else 0
LabelOf_notham(label) == IF label # <<"ham">> THEN 1 ELSE 0
LabelOf(label) == IF label = <<"spam">> THEN 1 ELSE 0

ReadInit ==
    /\ file_lines = <<>>
    /\ labels = <<>>
    /\ texts = <<>>
    /\ rd_status = "reading"

\* one iteration of `for line in file`
ReadLine ==
    /\ rd_status = "reading"
    /\ Len(file_lines) < MaxLines
    /\ \E line \in Lines :
         LET fields == Split(Strip(line), TAB) IN
         /\ IF Len(fields) = 2
            THEN /\ file_lines' = Append(file_lines, line)
                 /\ labels' = Append(labels, LabelOf(fields[1]))
                 /\ texts' = Append(texts, fields[2])
                 /\ rd_status' = "reading"
            ELSE \* unpacking into (label, text) raises; the locals are lost
                 /\ file_lines' = file_lines
                 /\ labels' = <<>>
                 /\ texts' = <<>>
                 /\ rd_status' = "ValueError"
    /\ UNCHANGED <<evVars, fs, buildVars, nbVars>>

\* the file is exhausted: return texts, labels
ReadReturn ==
    /\ rd_status = "reading"
    /\ rd_status' = "returned"
    /\ UNCHANGED <<evVars, file_lines, labels, texts, fs, buildVars, nbVars>>

----------------------------------------------------------------------------
(* The Keras tokenizer, padding and the vocabulary *)

\* A text is a sequence of blank-separated raw tokens: a capitalised word, a
\* lower-case word, a word the pre-trained source does not know, and a
\* token made of punctuation only.
RawTokens == {"Free", "win", "!"}
VocabTokens == {"Free", "win", "zzz", "!"}
Punctuation == {"!"}

\* Tokenizer(lower=True): str.lower()
Lower(w) == CASE w = "Free" -> "free" [] w = "PAD" -> "pad" [] OTHER -> w

\* text_to_word_sequence: lower-case, replace the filtered characters by the
\* split character, split, drop the empty strings
RECURSIVE text_to_word_sequence(_)
text_to_word_sequence(text) ==
    IF text = <<>> THEN <<>>
    ELSE IF Head(text) \in Punctuation
         THEN text_to_word_sequence(Tail(text))
         ELSE <<Lower(Head(text))>> \o text_to_word_sequence(Tail(text))

RECURSIVE word_sequences(_)
word_sequences(txts) ==
    IF txts = <<>> THEN <<>>
    ELSE <<text_to_word_sequence(Head(txts))>> \o word_sequences(Tail(txts))

\* Tokenizer.fit_on_texts: word_counts in order of first occurrence, sorted by
\* count (descending, stable), numbered from 1
fit_on_texts_from0(txts) ==
    LET all == Concat(word_sequences(txts))
        words == {all[i] : i \in 1..Len(all)}
        Before(u, w) ==
            \/ Count(u, all) > Count(w, all)
            \/ Count(u, all) = Count(w, all) /\ FirstPos(u, all) < FirstPos(w, all)
    IN [w \in words |-> Cardinality({u \in words : Before(u, w)})]
fit_on_texts(txts) ==
    LET all == Concat(word_sequences(txts))
        words == {all[i] : i \in 1..Len(all)}
        Before(u, w) ==
            \/ Count(u, all) > Count(w, all)
            \/ Count(u, all) = Count(w, all) /\ FirstPos(u, all) < FirstPos(w, all)
    IN [w \in words |-> 1 + Cardinality({u \in words : Before(u, w)})]

\* Tokenizer.texts_to_sequences for one text: the index of every word of
\* word_index, the other words dropped (no oov_token)
RECURSIVE lookup_words(_, _)
lookup_words(ws, word_index) ==
    IF ws = <<>> THEN <<>>
    ELSE IF Head(ws) \in DOMAIN word_index
         THEN <<word_index[Head(ws)]>> \o lookup_words(Tail(ws), word_index)
         ELSE lookup_words(Tail(ws), word_index)

text_to_sequence(text, word_index) ==
    lookup_words(text_to_word_sequence(text), word_index)

RECURSIVE texts_to_sequences(_, _)
texts_to_sequences(txts, word_index) ==
    IF txts = <<>> THEN <<>>
    ELSE <<text_to_sequence(Head(txts), word_index)>>
             \o texts_to_sequences(Tail(txts), word_index)

\* pad_sequences for one sequence (padding='pre', truncating='pre', value=0):
\* the last maxlen entries, zeros in front. (maxlen is 0 only when every
\* sequence is empty: the notebook pads to the longest training sequence
\* and predicts only with a trained model, whose input is at least
\* conv_kernel_size long.)
pad_one_keep(s, maxlen) ==
    IF Len(s) >= maxlen THEN s
    ELSE Zeros(maxlen - Len(s)) \o s
pad_one(s, maxlen) ==
    IF Len(s) >= maxlen THEN SubSeq(s, Len(s) - maxlen + 1, Len(s))
    ELSE Zeros(maxlen - Len(s)) \o s

\* pad_sequences(sequences, maxlen=maxlen)
pad_sequences(seqs, maxlen) == [i \in 1..Len(seqs) |-> pad_one(seqs[i], maxlen)]

\* pad_sequences(sequences): maxlen is the length of the longest sequence
pad_sequences_default(seqs) ==
    pad_sequences(seqs, Max({Len(seqs[i]) : i \in 1..Len(seqs)}))

\* word2idx = tokenizer.word_index; word2idx["PAD"] = 0
add_pad(word_index) ==
    [w \in DOMAIN word_index \cup {"PAD"} |-> IF w = "PAD" THEN 0 ELSE word_index[w]]

\* idx2word = {v: k for k, v in word2idx.items()}; idx2word[0] = "PAD"
reverse_map(word_index) ==
    LET idxs == {word_index[w] : w \in DOMAIN word_index}
    IN [i \in idxs \cup {0} |->
          IF i = 0 THEN "PAD" ELSE CHOOSE w \in DOMAIN word_index : word_index[w] = i]

\* The corpora of n word tokens in all: non-empty lists of non-empty texts
RECURSIVE CorporaOfTotal(_, _)
CorporaOfTotal(T, n) ==
    IF n = 0 THEN {<<>>}
    ELSE UNION {{<<t>> \o rest : t \in SeqsOfLen(T, l), rest \in CorporaOfTotal(T, n - l)}
                  : l \in 1..n}
Corpora(T, n) == UNION {CorporaOfTotal(T, k) : k \in 1..n}

----------------------------------------------------------------------------
(* build_embedding_matrix and the cache file *)

\* A path is its name cut before the extension: "data/E.npy" and "data/E".
\* EMBEDDING_NUMPY_FILE = os.path.join(DATA_DIR, "E.npy")
EMBEDDING_NUMPY_FILE == <<"data/E", ".npy">>
Paths == {EMBEDDING_NUMPY_FILE, <<"data/E">>}

\* EMBEDDING_DIM = 300 is the dimension of the vectors of EMBEDDING_MODEL
EMBEDDING_DIM == GloveDim

\* api.load(EMBEDDING_MODEL): the pre-trained vectors, keyed by lower-case
\* word; "zzz" and "PAD" are not words of the source
word_vectors ==
    [w \in {"free", "win"} |->
        [i \in 1..GloveDim |-> (IF w = "free" THEN 10 ELSE 20) + i]]

\* numpy.save(file, arr): ".npy" is appended to a file name that lacks it
npy_target(file) == IF file[Len(file)] = ".npy" THEN file ELSE Append(file, ".npy")

Files == Paths \cup {npy_target(f) : f \in Paths}

\* numpy.save / numpy.load: the array (its shape and every entry) is written
\* and read back as it is
np_save(files, file, arr) == [files EXCEPT ![npy_target(file)] = arr]
np_load(files, file) == files[file]
path_exists(files, file) == file \in DOMAIN files /\ files[file] # NoFile

\* E[idx] = vector: numpy broadcasts a vector of one entry over the row and
\* refuses any other length that is not the row's
CanAssign(vec, dim) == Len(vec) = dim \/ Len(vec) = 1
Broadcast(vec, dim) == IF Len(vec) = dim THEN vec ELSE [i \in 1..dim |-> vec[1]]

Shape(m) == <<Len(m), Len(m[1])>>

\* The else branch: allocate, look every vocabulary entry up, save.
compute_embedding_matrix(w2i, embedding_dim, embedding_file, files) ==
    LET size == Cardinality(DOMAIN w2i)
        \* word2idx.items() iterates in insertion order: the tokenizer's
        \* words by index, then "PAD"
        Order(w) == IF w = "PAD" THEN size + 1 ELSE w2i[w]
        known == {w \in DOMAIN w2i : w \in DOMAIN word_vectors}
        \* E[idx] raises IndexError past the last row, ValueError when the
        \* vector does not fit the row; neither is a KeyError
        BadIndex(w) == w2i[w] >= size
        BadShape(w) == ~CanAssign(word_vectors[w], embedding_dim)
        failing == {w \in known : BadIndex(w) \/ BadShape(w)}
        firstFailing == CHOOSE w \in failing : \A u \in failing : Order(w) <= Order(u)
        asked == IF failing = {} THEN DOMAIN w2i
                 ELSE {w \in DOMAIN w2i : Order(w) <= Order(firstFailing)}
        Row(i) ==
            LET ws == {w \in known : w2i[w] = i} IN
            IF ws = {} THEN Zeros(embedding_dim)
            ELSE LET last == CHOOSE w \in ws : \A u \in ws : Order(u) <= Order(w)
                 IN Broadcast(word_vectors[last], embedding_dim)
        mat == [r \in 1..size |-> Row(r - 1)]
    IN IF failing # {}
       THEN [status |-> IF BadIndex(firstFailing) THEN "IndexError" ELSE "ValueError",
             ret |-> NoMatrix, fs |-> files, hit |-> FALSE, loaded |-> TRUE,
             queried |-> asked, saved |-> FALSE]
       ELSE [status |-> "returned", ret |-> mat,
             fs |-> np_save(files, embedding_file, mat), hit |-> FALSE,
             loaded |-> TRUE, queried |-> asked, saved |-> TRUE]

\* The if branch: E = np.load(embedding_file)
load_embedding_matrix(embedding_file, files) ==
    [status |-> "returned", ret |-> np_load(files, embedding_file), fs |-> files,
     hit |-> TRUE, loaded |-> FALSE, queried |-> {}, saved |-> FALSE]

\* (a builder that reuses the file only when its shape fits the call)
build_embedding_matrix_validating(w2i, embedding_dim, embedding_file, files) ==
    IF /\ path_exists(files, embedding_file)
       /\ Shape(files[embedding_file]) = <<Cardinality(DOMAIN w2i), embedding_dim>>
    THEN load_embedding_matrix(embedding_file, files)
    ELSE compute_embedding_matrix(w2i, embedding_dim, embedding_file, files)

\* (a builder that never looks at the file)
build_embedding_matrix_nocache(w2i, embedding_dim, embedding_file, files) ==
    compute_embedding_matrix(w2i, embedding_dim, embedding_file, files)

\* The outcome of one call: what is returned (a matrix, or the exception that
\* leaves the function), the file system afterwards, and what the call did.
build_embedding_matrix(w2i, embedding_dim, embedding_file, files) ==
    IF path_exists(files, embedding_file)
    THEN load_embedding_matrix(embedding_file, files)
    ELSE compute_embedding_matrix(w2i, embedding_dim, embedding_file, files)

\* The vocabularies a fitted tokenizer hands to the builder
Vocabs == {add_pad(fit_on_texts(c)) : c \in Corpora(VocabTokens, MaxVocabTokens)}
Dims == 1..MaxDim

NoCall == [word2idx |-> <<>>, embedding_dim |-> 0, embedding_file |-> <<>>,
           status |-> "none", ret |-> NoMatrix, before |-> NoFile, hit |-> FALSE,
           loaded |-> FALSE, queried |-> {}, saved |-> FALSE, after |-> "none"]

FsInit == fs = [f \in Files |-> NoFile]

BuildInit == call = NoCall

\* what the call before this one was, seen from this one
After(w2i, d, f) ==
    IF call.status = "none" THEN "none"
    ELSE IF call.embedding_file # f THEN "other path"
    ELSE IF call.status # "returned" THEN "raised"
    ELSE IF call.word2idx # w2i \/ call.embedding_dim # d THEN "same path"
    ELSE IF call.before # NoFile THEN "same call, file found"
    ELSE "same call, file made"

\* one call build_embedding_matrix(sequences, w2i, d, f)
BuildCall ==
    /\ \E w2i \in Vocabs, d \in Dims, f \in Paths :
         LET r == build_embedding_matrix(w2i, d, f, fs) IN
         /\ call' = [word2idx |-> w2i, embedding_dim |-> d, embedding_file |-> f,
                     status |-> r.status, ret |-> r.ret, before |-> fs[f],
                     hit |-> r.hit, loaded |-> r.loaded, queried |-> r.queried,
                     saved |-> r.saved, after |-> After(w2i, d, f)]
         /\ fs' = r.fs
    /\ UNCHANGED <<evVars, readVars, nbVars>>

----------------------------------------------------------------------------
(* The notebook: tokenizer cell, embedding cell, model cell, predict_spam *)

\* conv_kernel_size = 3: Conv1D (padding 'valid') needs an input at least as
\* long as its kernel
conv_kernel_size == 3

\* The trained network is opaque: its weights are one number, and its softmax
\* output for a row is a pair of percentages that sum to 100.
Models == 0..MaxWeight
SpamPercent(weights, row) == ((weights + SumSeq(row)) % 5) * 25
model_predict_stateful(weights, batch) ==
    [i \in 1..Len(batch) |->
        LET p == SpamPercent(weights + (IF last_op = "predict_spam" THEN 1 ELSE 0),
                             batch[i])
        IN <<100 - p, p>>]
model_predict(weights, batch) ==
    [i \in 1..Len(batch) |->
        LET p == SpamPercent(weights, batch[i]) IN <<100 - p, p>>]

\* 0.5, in percent
Half == 50

\* predict_spam(message, model, tokenizer, max_seqlen): the padded sequence
\* it feeds the model and the label it returns
predict_spam_ge(msg, mdl, word_index, maxlen) ==
    LET sequence == texts_to_sequences(<<msg>>, word_index)
        padded == pad_sequences(sequence, maxlen)
        prediction == model_predict(mdl, padded)
        spam_prediction == prediction[1][2]
    IN [padded |-> padded[1],
        ret |-> IF spam_prediction >= Half THEN "Spam" ELSE "Not Spam"]
predict_spam(msg, mdl, word_index, maxlen) ==
    LET sequence == texts_to_sequences(<<msg>>, word_index)
        padded == pad_sequences(sequence, maxlen)
        prediction == model_predict(mdl, padded)
        spam_prediction == prediction[1][2]
    IN [padded |-> padded[1],
        ret |-> IF spam_prediction > Half THEN "Spam" ELSE "Not Spam"]

\* a message is a sequence of blank-separated raw tokens
MsgTokens == {"Free", "win"}
Messages == SeqsUpTo(MsgTokens, MaxMsgLen)

NbIdle ==
    /\ text_sequences = <<>>
    /\ max_seqlen = 0
    /\ word2idx = <<>>
    /\ idx2word = <<>>
    /\ vocab_size = 0
    /\ E = NoMatrix
    /\ model = 0
    /\ message = <<>>
    /\ padded_sequence = <<>>
    /\ result = ""
    /\ repeated = FALSE
    /\ last_op = "none"

\* the state after the first cell: texts read, nothing else defined
NbInit ==
    /\ pc = "read"
    /\ corpus \in Corpora(RawTokens, MaxCorpusTokens)
    /\ NbIdle

\* cell 2: fit the tokenizer, build and pad the sequences, build the vocabulary
Tokenize ==
    /\ pc = "read"
    /\ LET word_index == fit_on_texts(corpus)
           padded == pad_sequences_default(texts_to_sequences(corpus, word_index))
       IN /\ text_sequences' = padded
          /\ max_seqlen' = Len(padded[1])
          /\ word2idx' = add_pad(word_index)
          /\ idx2word' = reverse_map(word_index)
          /\ vocab_size' = Cardinality(DOMAIN add_pad(word_index))
    /\ pc' = "tokenized"
    /\ last_op' = "tokenize"
    /\ UNCHANGED <<evVars, readVars, fs, buildVars, corpus, E, model, message,
                   padded_sequence, result, repeated>>

\* cell 4: E = build_embedding_matrix(text_sequences, word2idx, EMBEDDING_DIM,
\* EMBEDDING_NUMPY_FILE)
BuildEmbedding ==
    /\ pc = "tokenized"
    /\ LET r == build_embedding_matrix(word2idx, EMBEDDING_DIM, EMBEDDING_NUMPY_FILE, fs)
       IN /\ call' = [word2idx |-> word2idx, embedding_dim |-> EMBEDDING_DIM,
                      embedding_file |-> EMBEDDING_NUMPY_FILE,
                      status |-> r.status, ret |-> r.ret,
                      before |-> fs[EMBEDDING_NUMPY_FILE],
                      hit |-> r.hit, loaded |-> r.loaded, queried |-> r.queried,
                      saved |-> r.saved, after |-> "none"]
          /\ fs' = r.fs
          /\ E' = r.ret
          /\ pc' = IF r.status = "returned" THEN "embedded" ELSE "failed"
    /\ last_op' = "build_embedding_matrix"
    /\ UNCHANGED <<evVars, readVars, corpus, text_sequences, max_seqlen, word2idx,
                   idx2word, vocab_size, model, message, padded_sequence, result,
                   repeated>>

\* cell 5: build, compile and fit the model. The fitted weights are whatever
\* training makes them; building fails on an input shorter than the kernel.
Train ==
    /\ pc = "embedded"
    /\ IF max_seqlen >= conv_kernel_size
       THEN /\ model' \in Models
            /\ pc' = "trained"
       ELSE /\ model' = model
            /\ pc' = "failed"
    /\ last_op' = "fit"
    /\ UNCHANGED <<evVars, readVars, fs, buildVars, corpus, text_sequences, max_seqlen,
                   word2idx, idx2word, vocab_size, E, message, padded_sequence,
                   result, repeated>>

\* predict_spam(msg, model, tokenizer, max_seqlen)
PredictSpam ==
    /\ pc = "trained"
    /\ \E msg \in Messages :
         LET r == predict_spam(msg, model, word2idx, max_seqlen) IN
         /\ message' = msg
         /\ padded_sequence' = r.padded
         /\ result' = r.ret
         /\ repeated' = (last_op = "predict_spam" /\ message = msg)
    /\ last_op' = "predict_spam"
    /\ UNCHANGED <<evVars, readVars, fs, buildVars, pc, corpus, text_sequences, max_seqlen,
                   word2idx, idx2word, vocab_size, E, model>>

----------------------------------------------------------------------------
(* The dataset split, model.fit and the evaluation loop *)

BATCH_SIZE == 128
test_size == 512
val_size == 10
NUM_EPOCH == 3
NUM_CLASSES == 2

\* A dataset is an interval lo..hi-1 of positions of the order that
\* dataset.shuffle produced for the pass that iterates it.
dataset(n) == [lo |-> 0, hi |-> n]

cardinality(ds) == ds.hi - ds.lo

\* Dataset.take(count): the first count elements, or all there are
take(ds, count) ==
    [lo |-> ds.lo, hi |-> IF ds.lo + count < ds.hi THEN ds.lo + count ELSE ds.hi]

\* Dataset.skip(count): what follows the first count elements
skip(ds, count) ==
    [lo |-> IF ds.lo + count < ds.hi THEN ds.lo + count ELSE ds.hi, hi |-> ds.hi]

RECURSIVE batch_keeping_remainder(_, _, _)
RECURSIVE batch(_, _, _)

\* batch that yields the short last batch whatever drop_remainder says
batch_keeping_remainder(ds, batch_size, drop_remainder) ==
    IF cardinality(ds) >= batch_size
    THEN <<[first |-> ds.lo, size |-> batch_size]>>
         \o batch_keeping_remainder(skip(ds, batch_size), batch_size,
                                    drop_remainder)
    ELSE IF cardinality(ds) > 0
         THEN <<[first |-> ds.lo, size |-> cardinality(ds)]>>
         ELSE <<>>

\* Dataset.batch(batch_size, drop_remainder): consecutive elements are
\* combined batch_size at a time; a last group of fewer elements is yielded
\* only when drop_remainder is false.
batch(ds, batch_size, drop_remainder) ==
    IF cardinality(ds) >= batch_size
    THEN <<[first |-> ds.lo, size |-> batch_size]>>
         \o batch(skip(ds, batch_size), batch_size, drop_remainder)
    ELSE IF cardinality(ds) > 0 /\ ~drop_remainder
         THEN <<[first |-> ds.lo, size |-> cardinality(ds)]>>
         ELSE <<>>

Splits == {"test", "val", "train"}

\* the three splits of a dataset of n records, before batching
split(s, n) ==
    CASE s = "test"  -> take(dataset(n), test_size)
      [] s = "val"   -> take(skip(dataset(n), test_size), val_size)
      [] s = "train" -> skip(dataset(n), test_size + val_size)

\* test_dataset, val_dataset and train_dataset after .batch(...)
batched(s, n) == batch(split(s, n), BATCH_SIZE, TRUE)

\* position p is in one of the batches
InBatch(p, batches) ==
    \E i \in DOMAIN batches :
        /\ batches[i].first <= p
        /\ p < batches[i].first + batches[i].size

\* what a pass over split s does with the record the shuffle put at position q
Region(q, s, n) ==
    IF ~(split(s, n).lo <= q /\ q < split(s, n).hi) THEN "outside"
    ELSE IF InBatch(q, batched(s, n)) THEN "batched"
    ELSE "remainder"

\* dataset.shuffle(10000) reshuffles before every pass: the followed record
\* may be at any position of the pass's order
Regions(s, n) == {Region(q, s, n) : q \in 0..(n - 1)}

NoPass == [split |-> "none", n |-> 0, lo |-> 0, batches |-> <<>>,
           tag |-> "outside"]

\* one pass (one iterator) over the batched split s
Pass(s) ==
    \E reg \in Regions(s, num_record) :
        /\ fed' = [split |-> s, n |-> cardinality(split(s, num_record)),
                   lo |-> split(s, num_record).lo,
                   batches |-> batched(s, num_record), tag |-> reg]
        /\ used' = IF reg = "batched" THEN used \cup {s} ELSE used
        /\ dropped' = IF reg = "remainder" THEN dropped \cup {s} ELSE dropped

\* model.predict_on_batch(X): one row of NUM_CLASSES scores per row of X
predict_on_batch(rows) == <<rows, NUM_CLASSES>>

\* len(np.argmax(Y, axis).tolist()) for a matrix Y of the given shape
argmax_len(shape, axis) == IF axis = 1 THEN shape[1] ELSE shape[2]

MismatchMessage == "Error: Mismatch in the sizes of labels and predictions lists"

\* report that takes the branches the other way round
report_inverted(nlabels, npredictions) ==
    IF nlabels # npredictions
    THEN <<"Test accuracy", "Confusion matrix:", "confusion_matrix">>
    ELSE <<MismatchMessage>>

\* the prints after the loop
report(nlabels, npredictions) ==
    IF nlabels = npredictions
    THEN <<"Test accuracy", "Confusion matrix:", "confusion_matrix">>
    ELSE <<MismatchMessage>>

EvIdle ==
    /\ epoch = 0
    /\ fed = NoPass
    /\ used = {}
    /\ dropped = {}
    /\ eval_i = 0
    /\ labels_len = 0
    /\ predictions_len = 0
    /\ printed = <<>>

\* the datasets are defined; model.fit is about to run
EvInit ==
    /\ num_record \in 1..MaxRecords
    /\ ev_pc = "fit"
    /\ EvIdle

EvOff ==
    /\ num_record = 0
    /\ ev_pc = "off"
    /\ EvIdle

\* model.fit: one epoch's pass over train_dataset; fit raises ValueError on
\* a training dataset that yields no batch
TrainEpoch ==
    /\ ev_pc = "fit"
    /\ epoch < NUM_EPOCH
    /\ Pass("train")
    /\ ev_pc' = IF batched("train", num_record) = <<>> THEN "ValueError"
                ELSE "validate"
    /\ UNCHANGED <<num_record, epoch, eval_i, labels_len, predictions_len,
                   printed>>
    /\ UNCHANGED <<readVars, fs, buildVars, nbVars>>

\* model.fit: the pass over val_dataset that ends an epoch
Validate ==
    /\ ev_pc = "validate"
    /\ Pass("val")
    /\ epoch' = epoch + 1
    /\ ev_pc' = IF epoch + 1 = NUM_EPOCH THEN "evaluate" ELSE "fit"
    /\ UNCHANGED <<num_record, eval_i, labels_len, predictions_len, printed>>
    /\ UNCHANGED <<readVars, fs, buildVars, nbVars>>

\* labels, predictions = [], [] and the iterator of `for ... in test_dataset`
EvalIter ==
    /\ ev_pc = "evaluate"
    /\ Pass("test")
    /\ eval_i' = 0
    /\ labels_len' = 0
    /\ predictions_len' = 0
    /\ ev_pc' = "loop"
    /\ UNCHANGED <<num_record, epoch, printed>>
    /\ UNCHANGED <<readVars, fs, buildVars, nbVars>>

\* one iteration of the evaluation loop
EvalBatch ==
    /\ ev_pc = "loop"
    /\ eval_i < Len(fed.batches)
    /\ LET rows   == fed.batches[eval_i + 1].size
           Ytest  == <<rows, NUM_CLASSES>>
           Ytest_ == predict_on_batch(rows)
       IN /\ labels_len' = labels_len + argmax_len(Ytest, 1)
          /\ predictions_len' = predictions_len + argmax_len(Ytest_, 1)
    /\ eval_i' = eval_i + 1
    /\ UNCHANGED <<num_record, ev_pc, epoch, fed, used, dropped, printed>>
    /\ UNCHANGED <<readVars, fs, buildVars, nbVars>>

\* test_dataset is exhausted: the if/else that prints the metrics
EvalReport ==
    /\ ev_pc = "loop"
    /\ eval_i = Len(fed.batches)
    /\ printed' = report(labels_len, predictions_len)
    /\ ev_pc' = "done"
    /\ UNCHANGED <<num_record, epoch, fed, used, dropped, eval_i, labels_len,
                   predictions_len>>
    /\ UNCHANGED <<readVars, fs, buildVars, nbVars>>

----------------------------------------------------------------------------
(* Specifications *)

NbOff == pc = "off" /\ corpus = <<>> /\ NbIdle

Init == ReadInit /\ FsInit /\ BuildInit /\ NbInit /\ EvOff
Next == Tokenize \/ BuildEmbedding \/ Train \/ PredictSpam
Spec == Init /\ [][Next]_vars

InitRead == ReadInit /\ FsInit /\ BuildInit /\ NbOff /\ EvOff
NextRead == ReadLine \/ ReadReturn
SpecRead == InitRead /\ [][NextRead]_vars

InitBuild == ReadInit /\ FsInit /\ BuildInit /\ NbOff /\ EvOff
NextBuild == BuildCall
SpecBuild == InitBuild /\ [][NextBuild]_vars

InitEval == ReadInit /\ FsInit /\ BuildInit /\ NbOff /\ EvInit
NextEval == TrainEpoch \/ Validate \/ EvalIter \/ EvalBatch \/ EvalReport
SpecEval == InitEval /\ [][NextEval]_vars

----------------------------------------------------------------------------
(* Claims about build_embedding_matrix (checked under SpecBuild) *)

Called == call.status # "none"
Returned == call.status = "returned"
CallV == Cardinality(DOMAIN call.word2idx)
SameArgs == /\ call'.word2idx = call.word2idx
            /\ call'.embedding_dim = call.embedding_dim
            /\ call'.embedding_file = call.embedding_file

\* C1: every matrix build_embedding_matrix returns has shape (V, D), V the
\* size of the vocabulary passed and D the embedding dimension passed,
\* whatever the cache file held when the call was made.
C1_ShapeIsVD == Returned => Shape(call.ret) = <<CallV, call.embedding_dim>>

\* C2: in the returned matrix the row of every vocabulary word is the
\* source's vector when the source has the word and all zeros when it has
\* not, and a vocabulary with absent words raises nothing.
C2_RowsFromSource ==
    /\ Returned =>
         \A w \in DOMAIN call.word2idx :
            LET r == call.word2idx[w] + 1 IN
            /\ r \in DOMAIN call.ret
            /\ call.ret[r] = IF w \in DOMAIN word_vectors
                             THEN word_vectors[w]
                             ELSE Zeros(call.embedding_dim)
    /\ (Called /\ \A w \in DOMAIN call.word2idx : w \notin DOMAIN word_vectors)
          => Returned

\* C3: a call made while the cache file exists returns the file's content,
\* whatever vocabulary and dimension it is given; it neither loads nor
\* queries the pre-trained source, saves nothing and leaves every file as
\* it was.
C3_CacheHitVerbatim ==
    [][path_exists(fs, call'.embedding_file) =>
          /\ call'.status = "returned"
          /\ call'.ret = fs[call'.embedding_file]
          /\ ~call'.loaded
          /\ call'.queried = {}
          /\ ~call'.saved
          /\ fs' = fs]_vars

\* a call found a file whose shape is not the one its arguments ask for
C3_Witness ==
    /\ Returned /\ call.before # NoFile
    /\ call.ret = call.before
    /\ Shape(call.ret) # <<CallV, call.embedding_dim>>

\* C4: two calls in a row with the same arguments, the cache file existing
\* at the first, return the same matrix, and the file holds after the second
\* what it held before the first.
C4_Idempotent ==
    [][(Called /\ call.before # NoFile /\ SameArgs) =>
          /\ Returned /\ call'.status = "returned"
          /\ call'.ret = call.ret
          /\ fs'[call'.embedding_file] = call.before
          /\ fs' = fs]_vars

\* the second of two such calls has returned, the file being a stale one
C4_Witness ==
    /\ Returned /\ call.after = "same call, file found"
    /\ call.before # NoFile
    /\ Shape(call.ret) # <<CallV, call.embedding_dim>>

\* C5: a call that finds no cache file leaves, on return, a file at the
\* cache path that holds the returned matrix; so the next call on that path
\* finds the file and returns that same matrix.
C5_PersistedBeforeReturn ==
    /\ [](Returned /\ call.before = NoFile =>
            /\ path_exists(fs, call.embedding_file)
            /\ fs[call.embedding_file] = call.ret)
    /\ [][(Returned /\ call'.embedding_file = call.embedding_file) =>
            /\ call'.hit
            /\ call'.ret = call.ret]_vars

----------------------------------------------------------------------------
(* Claims about the notebook and predict_spam (checked under Spec) *)

Tokenized == pc \in {"tokenized", "embedded", "trained", "failed"}
Predicted == last_op = "predict_spam"
RawSequence(text) == text_to_sequence(text, word2idx)

\* C6: every training sequence, and the sequence predict_spam builds for any
\* message, has exactly max_seqlen entries: a shorter one is the text's
\* indices with zeros added, a longer one is cut down to max_seqlen of them.
C6_PaddingInvariant ==
    /\ Tokenized =>
         /\ Len(text_sequences) = Len(corpus)
         /\ \A i \in 1..Len(text_sequences) :
               LET raw == RawSequence(corpus[i]) IN
               /\ Len(text_sequences[i]) = max_seqlen
               /\ text_sequences[i] = Zeros(max_seqlen - Len(raw)) \o raw
    /\ Predicted =>
         LET raw == RawSequence(message) IN
         /\ Len(padded_sequence) = max_seqlen
         /\ IF Len(raw) <= max_seqlen
            THEN padded_sequence = Zeros(max_seqlen - Len(raw)) \o raw
            ELSE \E k \in 1..Len(raw) :
                    padded_sequence = SubSeq(raw, k, k + max_seqlen - 1)

\* predict_spam was given a message of more known words than max_seqlen
C6_Witness ==
    /\ Predicted
    /\ Len(RawSequence(message)) > max_seqlen
    /\ Len(padded_sequence) = max_seqlen

\* the model's probability (in percent) of class 1 for the sequence it was fed
SpamProbability == model_predict(model, <<padded_sequence>>)[1][2]

\* C7: predict_spam returns "Spam" or "Not Spam"; "Spam" exactly when the
\* model's probability of class 1 for the input is above 0.5, so "Not Spam"
\* at 0.5 too.
C7_Threshold ==
    Predicted =>
        /\ result \in {"Spam", "Not Spam"}
        /\ result = "Spam" <=> SpamProbability > Half

\* a message whose spam probability is exactly 0.5 was labelled "Not Spam"
C7_Witness == Predicted /\ SpamProbability = Half /\ result = "Not Spam"

\* C8: a predict_spam call changes neither the model nor the vocabulary nor
\* max_seqlen nor any file, and a call with the message of the call before
\* it returns the label that call returned.
C8_Deterministic ==
    [][last_op' = "predict_spam" =>
          /\ UNCHANGED <<model, word2idx, idx2word, vocab_size, max_seqlen,
                         text_sequences, corpus, E, fs>>
          /\ (Predicted /\ message' = message) => result' = result]_vars

\* the same message was classified twice in a row
C8_Witness == Predicted /\ repeated /\ result = "Spam"

\* C10: word2idx is one-to-one and idx2word is its inverse; only "PAD" has
\* index 0; every index is below vocab_size = len(word2idx); and the builder,
\* computing the matrix for this vocabulary, makes a row for every index
\* without an IndexError.
C10_Vocabulary ==
    Tokenized =>
        /\ \A u, w \in DOMAIN word2idx : word2idx[u] = word2idx[w] => u = w
        /\ DOMAIN idx2word = {word2idx[w] : w \in DOMAIN word2idx}
        /\ \A w \in DOMAIN word2idx : idx2word[word2idx[w]] = w
        /\ \A w \in DOMAIN word2idx : word2idx[w] = 0 <=> w = "PAD"
        /\ vocab_size = Cardinality(DOMAIN word2idx)
        /\ \A w \in DOMAIN word2idx : word2idx[w] \in 0..(vocab_size - 1)
        /\ call.status # "IndexError"
        /\ (call.status = "returned" /\ call.saved) =>
               Shape(E) = <<vocab_size, EMBEDDING_DIM>>

\* the matrix was computed for a vocabulary of two corpus words and "PAD"
C10_Witness ==
    /\ pc = "embedded" /\ call.saved
    /\ vocab_size = 3
    /\ E[word2idx["free"] + 1] = word_vectors["free"]

----------------------------------------------------------------------------
(* Claims about read_data (checked under SpecRead) *)

ReadReturned == rd_status = "returned"
Fields(line) == Split(Strip(line), TAB)
LabelField(i) == Fields(file_lines[i])[1]
LinesLabelled(S) == {i \in 1..Len(file_lines) : LabelField(i) \in S}
LinesNotLabelled(S) == {i \in 1..Len(file_lines) : LabelField(i) \notin S}

\* one text and one label per line, in order; label 1 exactly for 'spam'
C9_PerLine ==
    /\ Len(texts) = Len(file_lines)
    /\ Len(labels) = Len(file_lines)
    /\ \A i \in 1..Len(file_lines) :
          /\ texts[i] = Fields(file_lines[i])[2]
          /\ labels[i] \in {0, 1}
          /\ labels[i] = 1 <=> LabelField(i) = <<"spam">>
    /\ Count(1, labels) = Cardinality(LinesLabelled({<<"spam">>}))

\* C9 (as stated): read_data returns one text and one label per line, in
\* order, label 1 exactly for the 'spam' lines and 0 for every other line; the
\* 1 labels are as many as the spam lines and the 0 labels as many as the ham
\* lines.
C9_LabelTally ==
    ReadReturned =>
        /\ C9_PerLine
        /\ Count(0, labels) = Cardinality(LinesLabelled({<<"ham">>}))

\* C9 (amended): read_data returns one text and one label per line, in
\* order, label 1 exactly for the 'spam' lines and 0 for every other line; the
\* 1 labels are as many as the spam lines and the 0 labels as many as the
\* lines whose label field is not 'spam', which are the ham lines when every
\* label field is 'spam' or 'ham'.
C9_LabelTallyAmended ==
    ReadReturned =>
        /\ C9_PerLine
        /\ Count(0, labels) = Cardinality(LinesNotLabelled({<<"spam">>}))
        /\ LinesNotLabelled({<<"spam">>, <<"ham">>}) = {} =>
              Count(0, labels) = Cardinality(LinesLabelled({<<"ham">>}))

\* a file with a spam line and a line labelled neither 'spam' nor 'ham'
C9_Witness ==
    /\ ReadReturned
    /\ LinesLabelled({<<"spam">>}) # {}
    /\ LinesNotLabelled({<<"spam">>, <<"ham">>}) # {}
    /\ Count(0, labels) > Cardinality(LinesLabelled({<<"ham">>}))

----------------------------------------------------------------------------
(* Claims about batching and the evaluation loop (checked under SpecEval) *)

Evaluated == ev_pc = "done"

MetricsPrinted ==
    printed = <<"Test accuracy", "Confusion matrix:", "confusion_matrix">>

BatchesOfPass ==
    fed.split # "none" =>
        /\ \A i \in DOMAIN fed.batches : fed.batches[i].size = BATCH_SIZE
        /\ Len(fed.batches) = fed.n \div BATCH_SIZE
        /\ \A p \in fed.lo..(fed.lo + fed.n - 1) :
               InBatch(p, fed.batches)
                   <=> p < fed.lo + fed.n - (fed.n % BATCH_SIZE)
        /\ (fed.split = "test" /\ fed.n = test_size) =>
               /\ Len(fed.batches) = 4
               /\ \A p \in 0..(test_size - 1) : InBatch(p, fed.batches)
        /\ (fed.split = "val" /\ fed.n = val_size) => fed.batches = <<>>

\* C12 (as stated): every batch of a pass over a split has BATCH_SIZE
\* records, a split of n records yields floor(n / BATCH_SIZE) batches, the
\* 512-record test split yields 4 batches that hold all of it and the
\* 10-record validation split yields none; and a record that is among the
\* last n mod BATCH_SIZE of a split is never in a batch of that split.
C12_RemainderNeverUsed ==
    /\ BatchesOfPass
    /\ \A s \in Splits : ~(s \in dropped /\ s \in used)

\* C12 (amended): every batch of a pass over a split has BATCH_SIZE records,
\* a split of n records yields floor(n / BATCH_SIZE) batches, the 512-record
\* test split yields 4 batches that hold all of it and the 10-record
\* validation split yields none; the last n mod BATCH_SIZE records of the
\* pass's own order are in no batch of that pass.
C12_RemainderUnusedInPass ==
    /\ BatchesOfPass
    /\ (fed.tag = "remainder") =>
           /\ fed.n % BATCH_SIZE > 0
           /\ fed.split \in dropped

\* the evaluation took the 4 batches of the test split after epochs in which
\* the validation split yielded no batch and the training split left a
\* remainder, one of whose records another epoch fed to training
C12_Witness ==
    /\ Evaluated
    /\ fed.split = "test"
    /\ fed.n = test_size
    /\ Len(fed.batches) = 4
    /\ eval_i = 4
    /\ "val" \in dropped
    /\ "train" \in dropped
    /\ "train" \in used

============================================================================
